---- MODULE Spec2Model ----
(***************************************************************************)
(* Model of foxml_scripts/multithreaded.py: the FOXML classifier and the   *)
(* managed-to-inline transformer over record trees, the nested archive     *)
(* locator, and the thread-pool batch that runs process_container_zip on   *)
(* every container archive and then writes map.csv.                        *)
(***************************************************************************)
EXTENDS Naturals, Integers, Sequences, FiniteSets, TLC

\* ------------------------------------------------------------------ bounds
NumArchives == 3      \* container archives enumerated from the input directory
MaxBags     == 3      \* members matching data/*_foxml_atomzip.zip per container
NumWorkers  == 2      \* os.cpu_count(): threads of the pool
MaxListed   == 3      \* matching members in all the containers together
MaxFaults   == 1      \* environment failures (tools, I/O, missing records) per batch
MaxVersions == 2      \* datastreamVersion elements of the MODS datastream
MaxMembers  == 2      \* members listed by the innermost archive
MaxDepth    == 2      \* levels of nested containers around it
MaxLines    == 2      \* lines of the generator's standard output
MaxNameLen  == 6      \* pieces of a bag's name

None == "None"        \* Python's None

\* ------------------------------------------------------------ record trees
\* A record tree is the sequence of foxml:datastream elements of the document.
\* A datastream has an ID, a CONTROL_GROUP attribute ("absent" when the
\* attribute is missing) and datastreamVersion elements; a version has an ID
\* and child elements; a child element has a tag and the tags of its own
\* children.
ContentLocation == [tag |-> "contentLocation", kids |-> <<>>]

ContentLocationExt == [tag |-> "contentLocation", kids |-> <<"extension">>]

ContentDigest == [tag |-> "contentDigest", kids |-> <<>>]

\* the children a datastreamVersion may have
VersionShapes ==
    { <<>>,
      <<ContentLocation>>,
      <<ContentDigest, ContentLocation>>,
      <<ContentLocationExt>>,
      <<ContentLocationExt, ContentLocation>>,
      <<ContentDigest>> }

SeqsUpTo(S, n) == UNION { [1..k -> S] : k \in 0..n }

VersionOf(i, kids) == [ID |-> i, kids |-> kids]

VersionLists ==
    { [i \in 1..Len(ks) |-> VersionOf(i, ks[i])] :
        ks \in SeqsUpTo(VersionShapes, MaxVersions) }

ModsDatastreams ==
    { [ID |-> "MODS", CONTROL_GROUP |-> c, versions |-> vs] :
        c \in {"M", "X", "absent"}, vs \in VersionLists }

DcDatastreams ==
    { [ID |-> "DC", CONTROL_GROUP |-> c, versions |-> <<>>] : c \in {"M", "X"} }

\* FOXML declares the datastream ID as an xsd:ID, so a record holds at most one
\* datastream with ID="MODS"; other datastreams may precede it.
Trees ==
    LET before == {<<>>} \cup { <<d>> : d \in DcDatastreams }
        mods   == {<<>>} \cup { <<m>> : m \in ModsDatastreams }
    IN  { b \o m : b \in before, m \in mods }

\* Element.find(".//foxml:datastream[@ID='MODS']"): position of the first
\* datastream whose ID is MODS, 0 for None.
RECURSIVE FirstWithId(_, _, _)
FirstWithId(root, id, i) ==
    IF i > Len(root) THEN 0
    ELSE IF root[i].ID = id THEN i
    ELSE FirstWithId(root, id, i + 1)

FindModsDatastream(root) == FirstWithId(root, "MODS", 1)

\* (variant: looks at the first datastream of the record, whatever its ID)
is_first_datastream_managed(root) ==
    IF Len(root) # 0 THEN root[1].CONTROL_GROUP = "M" ELSE FALSE

\* is_foxml_managed (lines 139-149)
is_foxml_managed(root) ==
    LET d == FindModsDatastream(root)
    IN  IF d # 0 THEN root[d].CONTROL_GROUP = "M" ELSE FALSE

\* bool(element) is len(element) != 0: an element without children is falsy.
Truthy(kids) == Len(kids) # 0

\* version.find(".//foxml:contentLocation"): the first contentLocation among
\* the children (children of children are leaves without that tag here).
RECURSIVE FirstTag(_, _, _)
FirstTag(kids, tag, i) ==
    IF i > Len(kids) THEN 0
    ELSE IF kids[i].tag = tag THEN i
    ELSE FirstTag(kids, tag, i + 1)

RemoveAt(s, i) == [j \in 1..(Len(s) - 1) |-> IF j < i THEN s[j] ELSE s[j + 1]]

XmlContent == [tag |-> "xmlContent", kids |-> <<"mods">>]

\* One pass of the loop body of managed_to_inline (lines 162-194) over one
\* datastreamVersion; mods is the set of version IDs for which the archive
\* holds a MODS file.  Returns the version and whether the body raised.
InlineVersion(v, mods) ==
    IF ~Truthy(v.kids) THEN [raised |-> FALSE, v |-> v]
    ELSE LET c  == FirstTag(v.kids, "contentLocation", 1)
             k1 == IF c # 0 /\ Truthy(v.kids[c].kids)
                   THEN RemoveAt(v.kids, c) ELSE v.kids
         IN  IF v.ID \notin mods
             THEN [raised |-> TRUE, v |-> [v EXCEPT !.kids = k1]]
             ELSE [raised |-> FALSE,
                   v |-> [v EXCEPT !.kids = Append(k1, XmlContent)]]

\* The for loop of managed_to_inline from version i on: stops at the first
\* version whose body raises, leaving the later versions untouched.
RECURSIVE InlineVersions(_, _, _)
InlineVersions(vs, i, mods) ==
    IF i > Len(vs) THEN [raised |-> FALSE, vs |-> vs]
    ELSE LET r == InlineVersion(vs[i], mods)
         IN  IF r.raised
             THEN [raised |-> TRUE, vs |-> [vs EXCEPT ![i] = r.v]]
             ELSE InlineVersions([vs EXCEPT ![i] = r.v], i + 1, mods)

\* (variant: the attribute is left as it was)
KeepControlGroup(root, d, c) == root

\* datastream.set("CONTROL_GROUP", c) (line 157)
SetControlGroup(root, d, c) == [root EXCEPT ![d].CONTROL_GROUP = c]

\* managed_to_inline (lines 151-194): the mutated tree and whether it raised.
managed_to_inline(root, mods) ==
    LET d == FindModsDatastream(root)
    IN  IF d = 0 THEN [raised |-> TRUE, root |-> root]
        ELSE LET r1 == SetControlGroup(root, d, "X")
                 r  == InlineVersions(r1[d].versions, 1, mods)
             IN  [raised |-> r.raised,
                  root   |-> [r1 EXCEPT ![d].versions = r.vs]]

\* --------------------------------------------------------- nested archives
\* A member name is a sequence of tokens, "/" separating directories.  A file
\* member carries the XML it holds: a root element (a label and the number of
\* its children) or bytes that do not parse; a container member carries its own
\* members.
Target == <<"foxml.xml">>

ZipName == <<"bag", ".zip">>

\* ET.fromstring on a member's bytes: an Element, or ParseError raised.
Xml(label, kids) == [kind |-> "Element", label |-> label, kids |-> kids]

Malformed == [kind |-> "ParseError", label |-> "", kids |-> 0]

NoElement == [kind |-> "None", label |-> "", kids |-> 0]

Files ==
    { [name |-> <<"foxml.xml", "/", "note.txt">>, xml |-> Malformed],
      [name |-> <<"foxml.xml">>, xml |-> Xml("A", 1)],
      [name |-> <<"foxml.xml">>, xml |-> Xml("B", 0)],
      [name |-> <<"foxml.xml">>, xml |-> Malformed],
      [name |-> <<"data", "/", "x_", "foxml.xml">>, xml |-> Xml("C", 1)] }

Matching == [name |-> <<"old_", "foxml.xml">>, xml |-> Xml("S", 2)]

Siblings ==
    { [name |-> <<"data", "/", "manifest.txt">>, xml |-> Malformed], Matching }

Container(members) == [name |-> ZipName, members |-> members]

RECURSIVE ArchivesAt(_)
ArchivesAt(n) ==
    IF n = 0 THEN SeqsUpTo(Files, MaxMembers)
    ELSE { pre \o <<Container(a)>> \o post :
             a \in ArchivesAt(n - 1),
             pre \in {<<>>} \cup { <<f>> : f \in Siblings },
             post \in {<<>>, <<Matching>>} }

Archives == UNION { ArchivesAt(n) : n \in 0..MaxDepth }

\* re.search(r'\.zip$', name)
EndsWithZip(name) == Len(name) > 0 /\ name[Len(name)] = ".zip"

\* os.path.basename(name): what follows the last "/"
RECURSIVE LastSlash(_, _)
LastSlash(name, i) ==
    IF i = 0 THEN 0 ELSE IF name[i] = "/" THEN i ELSE LastSlash(name, i - 1)

Basename(name) == SubSeq(name, LastSlash(name, Len(name)) + 1, Len(name))

\* target_filename in filename
IsIn(frag, name) ==
    \E i \in 0..(Len(name) - Len(frag)) : SubSeq(name, i + 1, i + Len(frag)) = frag

\* "if nested_result:" (line 120): None is falsy, and so is an Element
\* without children.
NestedResultTruthy(r) == r.kind # "None" /\ r.kids # 0

\* get_XML_tree_zip_file (lines 107-136), the for loop from member i on: the
\* Element returned, None, or ParseError when ET.fromstring raises.
RECURSIVE LocateFrom(_, _, _)
LocateFrom(target, zip, i) ==
    IF i > Len(zip) THEN NoElement
    ELSE LET m == zip[i]
         IN  IF EndsWithZip(m.name)
             THEN LET nested == LocateFrom(target, m.members, 1)
                  IN  IF nested.kind = "ParseError" THEN nested
                      ELSE IF NestedResultTruthy(nested) THEN nested
                      ELSE LocateFrom(target, zip, i + 1)
             ELSE IF IsIn(target, Basename(m.name))
                  THEN m.xml
                  ELSE LocateFrom(target, zip, i + 1)

get_XML_tree_zip_file(target, zip) == LocateFrom(target, zip, 1)

\* ------------------------------------------------------- generator command
\* A member's file name is a sequence of pieces, each handled as one character
\* would be: "_" is the underscore, the other pieces hold none.
Atomzip == <<"_", "foxml", "_", "atomzip.zip">>      \* '_foxml_atomzip.zip'

NamePieces == {"A", "_", "foxml", "atomzip.zip"}

BagNames == SeqsUpTo(NamePieces, MaxNameLen) \ {<<>>}

\* .../data/<name>_foxml_atomzip.zip
MemberPath(name) == <<"bag", "/", "data", "/">> \o name \o Atomzip

\* str.replace(old, ''): every occurrence of old, found from the left and
\* not overlapping, is removed
RECURSIVE replace(_, _)
replace(text, old) ==
    IF Len(text) < Len(old) THEN text
    ELSE IF SubSeq(text, 1, Len(old)) = old
         THEN replace(SubSeq(text, Len(old) + 1, Len(text)), old)
         ELSE <<text[1]>> \o replace(Tail(text), old)

\* str.rfind('_'), counted from 1: 0 when there is no underscore (Python's -1)
RECURSIVE rfind(_, _)
rfind(text, i) ==
    IF i = 0 THEN 0 ELSE IF text[i] = "_" THEN i ELSE rfind(text, i - 1)

Drush == "drush @dsu --user=1 create-islandora-bag object "

\* lines 71-85; with no underscore the slices are those of index -1
format_drush_command_from_atomzip(zip_path) ==
    LET zip_filename == replace(Basename(zip_path), Atomzip)
        last_underscore_index == rfind(zip_filename, Len(zip_filename))
        collection_name ==
            IF last_underscore_index = 0
            THEN SubSeq(zip_filename, 1, Len(zip_filename) - 1)
            ELSE SubSeq(zip_filename, 1, last_underscore_index - 1)
        pid == SubSeq(zip_filename, last_underscore_index + 1, Len(zip_filename))
    IN  <<Drush>> \o collection_name \o <<":">> \o pid

\* ------------------------------------------------------------ batch helpers
ZipFiles == [t \in 1..NumArchives |-> t]   \* os.listdir(input_dir), *.zip only

Tasks == 1..NumArchives

\* An archive's file name: a stem free of ".zip" followed by so many ".zip";
\* ArchiveName(1, 1) is "1.zip" and ArchiveName(1, 2) is "1.zip.zip", and both pass
\* the filter of line 309.
ArchiveName(stem, zips) == [stem |-> stem, zips |-> zips]

DistinctNames == [t \in Tasks |-> ArchiveName(t, 1)]

\* the listings os.listdir may give: the names above, or the second archive
\* named as the first with one more ".zip"
Listings ==
    { DistinctNames, [DistinctNames EXCEPT ![2] = ArchiveName(1, 2)] }

\* str.replace(".zip", "") (line 214): every occurrence is removed
Replace(name) == <<name.stem>>

\* (variant: os.makedirs(path, exist_ok=True))
makedirs_exist_ok(existing, path) ==
    [raised |-> FALSE, dirs |-> existing \cup {path}]

\* os.makedirs(path) (lines 215, 269): FileExistsError when the path exists,
\* the test and the creation being one mkdir call
makedirs(existing, path) ==
    [raised |-> path \in existing, dirs |-> existing \cup {path}]

\* ET.tostring(foxml_root).decode() (line 253) and xmllint --format: the text
\* names the record it was made from.
tostring(root) == [form |-> "xml", PID |-> root.PID]

Format(text) == [form |-> "formatted", PID |-> text.PID]

\* a local variable that has not been assigned yet
UnsetPath == <<0, 0>>

UnsetText == [form |-> "unbound", PID |-> <<0, 0>>]

\* a file that open(path, 'w') created and nothing was written to
EmptyFile == [form |-> "empty", PID |-> <<0, 0>>]

\* (variant: every archive but the last is submitted)
SubmitAllButLast(zs) == SubSeq(zs, 1, Len(zs) - 1)

\* [executor.submit(process_container_zip, z) for z in zip_files] (line 292)
SubmitAll(zs) == zs

\* (variant: the future's exception is raised again in the main thread)
ResultChecked(outcome) == IF outcome = "raised" THEN "aborted" ELSE "as_completed"

\* body of the as_completed loop (lines 294-295): progress.advance only
LoopBody(outcome) == "as_completed"

\* (variant: two threads read the same length and write the same slot)
LostUpdate(lst, e) ==
    IF lst = <<>> THEN <<e>> ELSE [lst EXCEPT ![Len(lst)] = e]

\* bag_name_and_new_foxml.append(e) (line 280): one atomic list operation
ListAppend(lst, e) == Append(lst, e)

\* The generator's standard output: lines, each a sequence of pieces of text.
BagCreated == "Bag created and saved at "

Lines ==
    { <<BagCreated, "/tmp/bag", ".zip">>, <<BagCreated, "/tmp/bag">>,
      <<BagCreated, ".zip">>, <<"error">> }

Stdouts == SeqsUpTo(Lines, MaxLines)

\* the first piece ".zip" of a line at or after position j, 0 when none
RECURSIVE ZipAt(_, _)
ZipAt(line, j) ==
    IF j > Len(line) THEN 0
    ELSE IF line[j] = ".zip" THEN j ELSE ZipAt(line, j + 1)

\* the pattern of line 94 in one line, from position i on: the fixed words,
\* then at least one character, then the first ".zip" after it
RECURSIVE MatchFrom(_, _)
MatchFrom(line, i) ==
    IF i > Len(line) THEN <<>>
    ELSE IF line[i] = BagCreated /\ ZipAt(line, i + 2) # 0
         THEN SubSeq(line, i + 1, ZipAt(line, i + 2))
         ELSE MatchFrom(line, i + 1)

\* re.findall(pattern, stdout), first match only (lines 97-101)
RECURSIVE FirstMatch(_, _)
FirstMatch(stdout, k) ==
    IF k > Len(stdout) THEN <<>>
    ELSE IF MatchFrom(stdout[k], 1) # <<>> THEN MatchFrom(stdout[k], 1)
         ELSE FirstMatch(stdout, k + 1)

\* (variant: the last line of the output is taken when no line matches)
extract_or_last_line(stdout) ==
    IF FirstMatch(stdout, 1) # <<>> THEN FirstMatch(stdout, 1)
    ELSE IF stdout = <<>> THEN <<"bag">> ELSE stdout[Len(stdout)]

\* lines 88-104; <<>> stands for None
extract_bag_path_from_drush_command_stdout(stdout) == FirstMatch(stdout, 1)

\* lines 229-234: the generator has returned with this output
Generate(stdout) ==
    IF extract_bag_path_from_drush_command_stdout(stdout) = <<>>
    THEN "nomatch" ELSE "path"

\* some line of the output holds the fixed words, followed at a distance of
\* one piece or more by a piece ".zip"
HasBagLine(stdout) ==
    \E k \in 1..Len(stdout) : \E i \in 1..Len(stdout[k]) :
        /\ stdout[k][i] = BagCreated
        /\ \E j \in (i + 2)..Len(stdout[k]) : stdout[k][j] = ".zip"

\* (variant: the first member is not told from the later ones)
AlwaysTakesContainerRecord(found) == TRUE

\* line 224: `not found_first_atomzip and name not in input_zip`; name holds
\* "data/" (line 220) and input_zip, a name os.listdir gave, holds no "/",
\* so name is never a substring of it
TakesContainerRecord(found) == ~found /\ TRUE

\* What the environment does during one pass of the loop of
\* process_container_zip: the generator, the record found, the transformer,
\* the formatter, the file system, and whether the listing holds another
\* matching member after this one.  "-" marks a step the pass never reaches;
\* xf is "ok" when the transformer is skipped or returns, "raised" when it
\* raises.  gen is <<outcome, announced>>: how the generator ended, and whether
\* its output held a line announcing the bag.
Env(gen, root, xf, fmt, wr, more) ==
    [gen |-> gen[1], announced |-> gen[2], root |-> root, xf |-> xf,
     fmt |-> fmt, wr |-> wr, more |-> more]

\* how subprocess.run of the generator (line 229) can end: with some output,
\* or never
GeneratorOutcomes ==
    { <<Generate(o), HasBagLine(o)>> : o \in Stdouts } \cup {<<"hang", FALSE>>}

Envs(first, mores) ==
    LET outs  == IF first THEN {<<"not_run", FALSE>>} ELSE GeneratorOutcomes
        gens  == { g \in outs : g[1] \in {"not_run", "path"} }
    IN  { Env(g, "-", "-", "-", "-", m) : g \in { h \in outs : h[1] = "nomatch" }, m \in mores }
        \cup { Env(g, "-", "-", "-", "-", FALSE) : g \in { h \in outs : h[1] = "hang" } }
        \cup { Env(g, r, "-", "-", "-", m) :
                 g \in gens, r \in {None, "ParseError"}, m \in mores }
        \cup { Env(g, "tree", x, "timeout", "-", m) :
                 g \in gens, x \in {"ok", "raised"}, m \in mores }
        \cup { Env(g, "tree", x, f, w, m) :
                 g \in gens, x \in {"ok", "raised"}, f \in {"ok", "nonzero"},
                 w \in {"ok", "mkdir_fail", "open_fail"}, m \in mores }

Faults(e) ==
      (IF e.gen \in {"nomatch", "hang"} THEN 1 ELSE 0)
    + (IF e.root \in {None, "ParseError"} THEN 1 ELSE 0)
    + (IF e.xf = "raised" THEN 1 ELSE 0)
    + (IF e.fmt \in {"nonzero", "timeout"} THEN 1 ELSE 0)
    + (IF e.wr \in {"mkdir_fail", "open_fail"} THEN 1 ELSE 0)

\* Whether a listing of which n matching members are known may hold one more,
\* k being the matching members all listings have shown so far.
Mores(k, n) == IF n < MaxBags /\ k < MaxListed THEN BOOLEAN ELSE {FALSE}

\* the record kept of the latest pass: the task, the member, the environment
\* and what the pass did: calls of the generator, where the record came from
PassRecord(t, b, e, r) ==
    [task |-> t, bag |-> b, gen |-> e.gen, announced |-> e.announced,
     root |-> e.root, xf |-> e.xf, fmt |-> e.fmt, wr |-> e.wr, more |-> e.more,
     calls |-> r.calls, source |-> r.source]

NoPass ==
    [task |-> 0, bag |-> 0, gen |-> "-", announced |-> FALSE, root |-> "-",
     xf |-> "-", fmt |-> "-", wr |-> "-", more |-> FALSE, calls |-> 0,
     source |-> "-"]

\* ------------------------------------------------------------------- state
VARIABLES
    \* classifier / transformer on one record (lines 238-245)
    foxml_root,     \* the record tree
    mods_files,     \* version IDs whose MODS file the archive holds
    xpc,            \* "idle", "parsed", "classified", "transformed", "failed", "skipped", ...
    managed,        \* the classifier's last answer
    was_managed,    \* the classifier's answer at the gate
    original,       \* the tree as parsed
    \* locator on one archive
    zip_ref,        \* the archive searched
    lpc,            \* "idle", "open", "returned"
    located,        \* what get_XML_tree_zip_file returned
    \* the generator command of one member
    zip_path,       \* the member's name in the listing
    command,        \* what format_drush_command_from_atomzip returned, <<>> before
    \* the batch
    mainpc,         \* main thread: "start", "as_completed", "write_map", "done", "aborted"
    queue,          \* the executor's work queue
    tpc,            \* per task: "unsubmitted", "queued", "running", "blocked", "returned", "raised"
    member,         \* per task: matching members already looped over
    found_first_atomzip,     \* per task: local of process_container_zip
    converted_foxml_path,    \* per task: local, Unset until line 270 has run
    formatted_xml_string,    \* per task: local, Unset until line 266 has run
    bag_name_and_new_foxml,  \* the shared result index (line 35)
    dirs,           \* directories created under return_directory
    files,          \* path of a created file -> its content
    progress,       \* progress.advance calls
    map_csv,        \* rows written to map.csv
    map_writes,     \* times map.csv was written
    listed,         \* matching members the listings have shown so far
    faults,         \* environment failures so far
    started,        \* per archive: times a worker began process_container_zip on it
    appended,       \* per task: the entries it appended, in order
    archive_name,   \* per task: input_zip, the name os.listdir gave (line 309)
    touched,        \* <<kind, path, task>>: the task created the directory or file
    last            \* the latest pass of the loop and what the environment did in it

treeVars == <<foxml_root, mods_files, xpc, managed, was_managed, original>>

locVars == <<zip_ref, lpc, located, zip_path, command>>

batchVars == <<mainpc, queue, tpc, member, found_first_atomzip,
               converted_foxml_path, formatted_xml_string,
               bag_name_and_new_foxml, dirs, files, progress, map_csv,
               map_writes, listed, faults, started, appended, archive_name,
               touched, last>>

vars == <<treeVars, locVars, batchVars>>

\* output_directory of a container (line 214) and the directory of a bag in it
\* (line 268); the bag's file is foxml.xml in that directory (line 270).
OutputDirectory(t) == Replace(archive_name[t]) \o <<0>>

SaveDirectory(t, b) == Replace(archive_name[t]) \o <<b>>

TreeIdle ==
    /\ foxml_root = <<>> /\ mods_files = {} /\ xpc = "idle"
    /\ managed = FALSE /\ was_managed = FALSE /\ original = <<>>

LocIdle ==
    /\ zip_ref = <<>> /\ lpc = "idle" /\ located = NoElement
    /\ zip_path = <<>> /\ command = <<>>

BatchStart ==
    /\ mainpc = "start"
    /\ queue = <<>>
    /\ tpc = [t \in Tasks |-> "unsubmitted"]
    /\ member = [t \in Tasks |-> 0]
    /\ found_first_atomzip = [t \in Tasks |-> FALSE]
    /\ converted_foxml_path = [t \in Tasks |-> UnsetPath]
    /\ formatted_xml_string = [t \in Tasks |-> UnsetText]
    /\ bag_name_and_new_foxml = <<>>
    /\ dirs = {}
    /\ files = << >>
    /\ progress = 0
    /\ map_csv = <<>>
    /\ map_writes = 0
    /\ listed = 0
    /\ faults = 0
    /\ started = [t \in Tasks |-> 0]
    /\ appended = [t \in Tasks |-> <<>>]
    /\ touched = {}
    /\ last = NoPass

BatchIdle == BatchStart /\ archive_name = DistinctNames

\* ------------------------------------------------- classifier and transformer
TreeInit ==
    /\ foxml_root \in Trees
    /\ mods_files \in { (1..MaxVersions) \ {m} : m \in 0..MaxVersions }
    /\ xpc = "parsed"
    /\ managed = FALSE
    /\ was_managed = FALSE
    /\ original = foxml_root
    /\ LocIdle /\ BatchIdle

\* line 238: if is_foxml_managed(foxml_root)
Classify ==
    /\ xpc = "parsed"
    /\ managed' = is_foxml_managed(foxml_root)
    /\ was_managed' = is_foxml_managed(foxml_root)
    /\ xpc' = "classified"
    /\ UNCHANGED <<foxml_root, mods_files, original, locVars, batchVars>>

\* lines 239-243: the managed branch, the transformer's exception caught
Transform ==
    /\ xpc = "classified"
    /\ managed
    /\ LET r == managed_to_inline(foxml_root, mods_files)
       IN  /\ foxml_root' = r.root
           /\ xpc' = IF r.raised THEN "failed" ELSE "transformed"
    /\ UNCHANGED <<mods_files, managed, was_managed, original, locVars, batchVars>>

\* lines 244-245: the inline branch
SkipTransform ==
    /\ xpc = "classified"
    /\ ~managed
    /\ xpc' = "skipped"
    /\ UNCHANGED <<foxml_root, mods_files, managed, was_managed, original,
                   locVars, batchVars>>

\* a later run classifies the tree this run left (line 238 again)
Reclassify ==
    /\ xpc \in {"transformed", "failed", "skipped"}
    /\ managed' = is_foxml_managed(foxml_root)
    /\ xpc' = IF xpc = "skipped" THEN "rerun_skipped" ELSE "rerun"
    /\ UNCHANGED <<foxml_root, mods_files, was_managed, original, locVars, batchVars>>

TreeNext == Classify \/ Transform \/ SkipTransform \/ Reclassify

TreeSpec == TreeInit /\ [][TreeNext]_vars

\* ------------------------------------------------------------------ locator
LocInit ==
    /\ zip_ref \in Archives
    /\ lpc = "open"
    /\ located = NoElement
    /\ zip_path = <<>> /\ command = <<>>
    /\ TreeIdle /\ BatchIdle

\* get_XML_tree_zip_file('foxml.xml', zip_archive) (lines 226, 236)
Locate ==
    /\ lpc = "open"
    /\ located' = get_XML_tree_zip_file(Target, zip_ref)
    /\ lpc' = IF located'.kind = "ParseError" THEN "raised" ELSE "returned"
    /\ UNCHANGED <<zip_ref, zip_path, command, treeVars, batchVars>>

LocNext == Locate

LocSpec == LocInit /\ [][LocNext]_vars

\* --------------------------------------------------------- generator command
CommandInit ==
    /\ zip_path \in { MemberPath(n) : n \in BagNames }
    /\ command = <<>>
    /\ zip_ref = <<>> /\ lpc = "idle" /\ located = NoElement
    /\ TreeIdle /\ BatchIdle

\* format_drush_command_from_atomzip(name) (line 229)
FormatCommand ==
    /\ command = <<>>
    /\ command' = format_drush_command_from_atomzip(zip_path)
    /\ UNCHANGED <<zip_path, zip_ref, lpc, located, treeVars, batchVars>>

CommandNext == FormatCommand

CommandSpec == CommandInit /\ [][CommandNext]_vars

\* -------------------------------------------------------------------- batch
BatchInit ==
    /\ BatchStart
    /\ archive_name = DistinctNames
    /\ TreeIdle /\ LocIdle

\* the same batch over any of the listings
NamesInit ==
    /\ BatchStart
    /\ archive_name \in Listings
    /\ TreeIdle /\ LocIdle

\* (variant: as_completed yields only the futures whose task returned)
OnlyReturned(t) == tpc[t] = "returned"

\* (variant: as_completed also yields a future whose task is still running)
FinishedOrRunning(t) == tpc[t] \in {"returned", "raised", "running"}

Finished(t) == tpc[t] \in {"returned", "raised"}

\* threads of the pool that are inside process_container_zip
Busy == { t \in Tasks : tpc[t] \in {"running", "blocked"} }

\* lines 309-310 and 284-292: enumerate the archives and submit one task each
Run ==
    /\ mainpc = "start"
    /\ queue' = SubmitAll(ZipFiles)
    /\ tpc' = [t \in Tasks |->
                 IF \E i \in 1..Len(queue') : queue'[i] = t THEN "queued" ELSE tpc[t]]
    /\ mainpc' = "as_completed"
    /\ UNCHANGED <<member, found_first_atomzip, converted_foxml_path,
                   formatted_xml_string, bag_name_and_new_foxml, dirs, files,
                   progress, map_csv, map_writes, listed, faults, started,
                   appended, archive_name, touched, last, treeVars, locVars>>

\* a free thread of the pool takes the next work item and enters
\* process_container_zip (lines 211-217)
Start(t) ==
    /\ queue # <<>>
    /\ Head(queue) = t
    /\ Cardinality(Busy) < NumWorkers
    /\ queue' = Tail(queue)
    /\ started' = [started EXCEPT ![t] = @ + 1]
    /\ LET made == makedirs(dirs, OutputDirectory(t))
       IN  IF made.raised
           THEN /\ tpc' = [tpc EXCEPT ![t] = "raised"]  \* os.makedirs: FileExistsError
                /\ UNCHANGED <<dirs, listed, touched>>
           ELSE /\ \E any \in Mores(listed, 0) : \* does the listing hold a matching member?
                     /\ tpc' = [tpc EXCEPT ![t] = IF any THEN "running" ELSE "returned"]
                     /\ listed' = IF any THEN listed + 1 ELSE listed
                /\ dirs' = made.dirs
                /\ touched' = touched \cup {<<"dir", OutputDirectory(t), t>>}
    /\ member' = [member EXCEPT ![t] = 0]
    /\ found_first_atomzip' = [found_first_atomzip EXCEPT ![t] = FALSE]
    /\ converted_foxml_path' = [converted_foxml_path EXCEPT ![t] = UnsetPath]
    /\ formatted_xml_string' = [formatted_xml_string EXCEPT ![t] = UnsetText]
    /\ UNCHANGED <<mainpc, bag_name_and_new_foxml, files, progress,
                   map_csv, map_writes, faults, appended, archive_name, last,
                   treeVars, locVars>>

\* The task's state after one pass of the for loop (lines 218-280) over its
\* next matching member b, the environment doing e.
Pass(t, b, e) ==
    LET first   == TakesContainerRecord(found_first_atomzip[t])
        \* lines 224-236
        skipped == e.gen \in {"nomatch", "hang"}
        gotRoot == e.root = "tree"
        root    == [PID |-> <<t, b>>]
        \* lines 257-266
        text    == IF e.fmt = "ok" THEN Format(tostring(root))
                   ELSE formatted_xml_string[t]
        \* lines 268-270
        madeDir == e.wr \in {"ok", "open_fail"}
        path    == IF madeDir THEN SaveDirectory(t, b) ELSE converted_foxml_path[t]
        \* lines 273-274: open() creates the file, then the text is written
        opened  == e.wr = "ok"
        content == IF text = UnsetText THEN EmptyFile ELSE text
        \* line 280
        appends == gotRoot /\ path # UnsetPath
        raises  == \/ e.root \in {None, "ParseError"}  \* lines 129-135, 238
                   \/ (gotRoot /\ path = UnsetPath)       \* line 280: unbound local
        hangs   == e.gen = "hang"                      \* line 229: no timeout
        returns == ~raises /\ ~hangs /\ ~e.more
    IN  [found   |-> IF first THEN TRUE ELSE found_first_atomzip[t],
         text    |-> IF gotRoot THEN text ELSE formatted_xml_string[t],
         path    |-> IF gotRoot THEN path ELSE converted_foxml_path[t],
         mkdir   |-> gotRoot /\ madeDir,
         write   |-> gotRoot /\ opened,
         content |-> content,
         appends |-> appends,
         entry   |-> <<b, path>>,
         calls   |-> IF first THEN 0 ELSE 1,
         source  |-> IF first THEN "container"
                     ELSE IF skipped THEN "-" ELSE "companion",
         pc      |-> IF hangs THEN "blocked"
                     ELSE IF raises THEN "raised"
                     ELSE IF returns THEN "returned" ELSE "running"]

ProcessBag(t) ==
    /\ tpc[t] = "running"
    /\ \E e \in Envs(TakesContainerRecord(found_first_atomzip[t]),
                     Mores(listed, member[t] + 1)) :
         LET b == member[t] + 1
             r == Pass(t, b, e)
             over == r.pc \in {"returned", "raised"}
         IN  /\ faults + Faults(e) <= MaxFaults
             /\ faults' = faults + Faults(e)
             /\ listed' = IF e.more THEN listed + 1 ELSE listed
             /\ member' = [member EXCEPT ![t] = b]
             /\ tpc' = [tpc EXCEPT ![t] = r.pc]
             /\ found_first_atomzip' =
                    [found_first_atomzip EXCEPT ![t] = IF over THEN FALSE ELSE r.found]
             /\ formatted_xml_string' =
                    [formatted_xml_string EXCEPT ![t] = IF over THEN UnsetText ELSE r.text]
             /\ converted_foxml_path' =
                    [converted_foxml_path EXCEPT ![t] = IF over THEN UnsetPath ELSE r.path]
             /\ dirs' = IF r.mkdir THEN dirs \cup {SaveDirectory(t, b)} ELSE dirs
             /\ files' = IF r.write
                         THEN (SaveDirectory(t, b) :> r.content) @@ files
                         ELSE files
             /\ bag_name_and_new_foxml' =
                    IF r.appends THEN ListAppend(bag_name_and_new_foxml, r.entry)
                    ELSE bag_name_and_new_foxml
             /\ appended' = IF r.appends
                            THEN [appended EXCEPT ![t] = Append(@, r.entry)]
                            ELSE appended
             /\ touched' = touched
                    \cup (IF r.mkdir THEN {<<"dir", SaveDirectory(t, b), t>>} ELSE {})
                    \cup (IF r.write THEN {<<"file", SaveDirectory(t, b), t>>} ELSE {})
             /\ last' = PassRecord(t, b, e, r)
    /\ UNCHANGED <<mainpc, queue, progress, map_csv, map_writes, started,
                   archive_name, treeVars, locVars>>

\* lines 294-295: the as_completed loop, which ends once every future has
\* finished, having run its body on each of them
AsCompleted ==
    /\ mainpc = "as_completed"
    /\ \A t \in Tasks : Finished(t)
    /\ progress' = progress + Cardinality(Tasks)
    /\ mainpc' = IF \E t \in Tasks : LoopBody(tpc[t]) # "as_completed"
                 THEN "aborted" ELSE "write_map"
    /\ UNCHANGED <<queue, tpc, member, found_first_atomzip,
                   converted_foxml_path, formatted_xml_string,
                   bag_name_and_new_foxml, dirs, files, map_csv, map_writes,
                   listed, faults, started, appended, archive_name, touched,
                   last, treeVars, locVars>>

\* lines 312-319: the executor is shut down and map.csv is written
WriteMapCsv ==
    /\ mainpc = "write_map"
    /\ map_csv' = bag_name_and_new_foxml
    /\ map_writes' = map_writes + 1
    /\ mainpc' = "done"
    /\ UNCHANGED <<queue, tpc, member, found_first_atomzip,
                   converted_foxml_path, formatted_xml_string,
                   bag_name_and_new_foxml, dirs, files, progress, listed,
                   faults, started, appended, archive_name, touched, last,
                   treeVars, locVars>>

Next ==
    \/ Run
    \/ \E t \in Tasks : Start(t)
    \/ \E t \in Tasks : ProcessBag(t)
    \/ AsCompleted
    \/ WriteMapCsv

Spec == BatchInit /\ [][Next]_vars

NamesSpec == NamesInit /\ [][Next]_vars

\* The interpreter schedules every thread that can run.
Fairness ==
    /\ WF_vars(Run) /\ WF_vars(AsCompleted) /\ WF_vars(WriteMapCsv)
    /\ \A t \in Tasks : WF_vars(Start(t)) /\ WF_vars(ProcessBag(t))

FairSpec == Spec /\ Fairness

\* ------------------------------------------------------------------ claims
\* the entries of the index that lie under the output directory of task t
OfTask(t) == SelectSeq(bag_name_and_new_foxml, LAMBDA e : e[2][1] = t)

Occurrences(q, t) == Cardinality({ i \in 1..Len(q) : q[i] = t })

\* the latest pass failed at some step
PassFailed ==
    /\ last.task # 0
    /\ \/ last.gen \in {"nomatch", "hang"}
       \/ last.root \in {None, "ParseError"}
       \/ last.xf = "raised"
       \/ last.fmt \in {"nonzero", "timeout"}
       \/ last.wr \in {"mkdir_fail", "open_fail"}

HasEntry(t, b) ==
    \E i \in 1..Len(bag_name_and_new_foxml) :
        /\ bag_name_and_new_foxml[i][1] = b
        /\ bag_name_and_new_foxml[i][2][1] = t

\* C1: an exception raised inside one task never reaches the main thread and
\* never touches another task: the step in which a task raises leaves every
\* other task and the work queue as they were, the main thread is never
\* aborted, and once every task has finished the as_completed loop ends with
\* the main thread about to write map.csv.
C1_FailureIsolation ==
    /\ [](mainpc # "aborted")
    /\ []((mainpc = "as_completed" /\ \A t \in Tasks : Finished(t))
            => ENABLED (AsCompleted /\ mainpc' = "write_map"))
    /\ [][\A t \in Tasks :
            (tpc[t] # "raised" /\ tpc'[t] = "raised")
              => /\ \A u \in Tasks \ {t} : tpc'[u] = tpc[u] /\ member'[u] = member[u]
                 /\ mainpc' = mainpc
                 /\ (tpc[t] = "running" => queue' = queue)]_vars

\* C1 witness: a task has raised, another has returned with an entry in the
\* index, and map.csv holds the index.
C1_Witness ==
    /\ mainpc = "done"
    /\ tpc[1] = "raised"
    /\ tpc[3] = "returned"
    /\ Len(appended[3]) > 0
    /\ map_csv = bag_name_and_new_foxml
    /\ map_writes = 1

\* C2 (as claimed): a bag whose pass failed at some step (generator, locator,
\* transformer, formatter exit status or timeout, file write) has no entry in
\* the result index.
C2_IndexOnlyHoldsSuccesses ==
    PassFailed => ~HasEntry(last.task, last.bag)

\* C3 (as claimed): a bag whose pass failed at some step has no file at its
\* output path; in particular none when the formatter exited non-zero or
\* timed out.
C3_NoFileForFailedBag ==
    PassFailed => SaveDirectory(last.task, last.bag) \notin DOMAIN files

\* C4: every enumerated archive is submitted as exactly one task and a worker
\* enters process_container_zip for it exactly once: before submission nothing
\* has started, afterwards each archive is either once in the queue or was
\* started once, and at the end each was started once and has finished.
C4_EachArchiveOnce ==
    \A t \in Tasks :
        /\ mainpc = "start" => started[t] = 0 /\ Occurrences(queue, t) = 0
        /\ mainpc # "start" => Occurrences(queue, t) + started[t] = 1
        /\ mainpc = "done" => started[t] = 1 /\ Finished(t)

\* C4 witness: the batch is over and every archive was processed.
C4_Witness ==
    /\ mainpc = "done"
    /\ \A t \in Tasks : started[t] = 1 /\ tpc[t] = "returned" /\ member[t] >= 1

\* C9 (as claimed): in a batch of 3 archives, once the generator call of
\* archive 2 has run past any time limit, the batch still completes with a
\* result index of exactly two entries, those of archives 1 and 3.
C9_GeneratorTimeoutEndToEnd ==
    (NumArchives = 3 /\ last.task = 2 /\ last.gen = "hang")
        ~> (/\ mainpc = "done"
            /\ Len(map_csv) = 2
            /\ { map_csv[i][2][1] : i \in 1..Len(map_csv) } = {1, 3})

\* C10: whatever the interleaving, the index holds exactly what the workers
\* appended: every entry belongs to a task, the entries of each task are the
\* ones it appended, in the order it appended them, and map.csv is that index.
C10_AppendsSerialized ==
    /\ \A i \in 1..Len(bag_name_and_new_foxml) :
           bag_name_and_new_foxml[i][2][1] \in Tasks
    /\ \A t \in Tasks : OfTask(t) = appended[t]
    /\ mainpc = "done" => map_csv = bag_name_and_new_foxml

\* C10 witness: the batch is over and the two entries of one task lie in the
\* index on either side of an entry of another task.
C10_Witness ==
    /\ mainpc = "done"
    /\ \E i, j, k \in 1..Len(bag_name_and_new_foxml) :
           /\ i < j /\ j < k
           /\ bag_name_and_new_foxml[i][2][1] = bag_name_and_new_foxml[k][2][1]
           /\ bag_name_and_new_foxml[i][2][1] # bag_name_and_new_foxml[j][2][1]

\* a version of the MODS datastream of the tree still holds a contentLocation
HasContentLocation(root) ==
    LET d == FindModsDatastream(root)
    IN  /\ d # 0
        /\ \E v \in 1..Len(root[d].versions) :
             \E k \in 1..Len(root[d].versions[v].kids) :
                LET el == root[d].versions[v].kids[k]
                IN  \/ el.tag = "contentLocation"
                    \/ \E g \in 1..Len(el.kids) : el.kids[g] = "contentLocation"

\* the tree has a MODS datastream whose CONTROL_GROUP is "M"
HasManagedMods(root) ==
    \E i \in 1..Len(root) : root[i].ID = "MODS" /\ root[i].CONTROL_GROUP = "M"

\* C5 (as claimed): after managed_to_inline has returned without error on a
\* managed record, the MODS datastream's CONTROL_GROUP is "X" and none of its
\* versions holds a contentLocation element.
C5_InlineAfterTransform ==
    xpc = "transformed"
        => /\ foxml_root[FindModsDatastream(foxml_root)].CONTROL_GROUP = "X"
           /\ ~HasContentLocation(foxml_root)

\* C6: on every tree managed_to_inline has been applied to, whether it
\* returned or raised, is_foxml_managed answers false, and so does the
\* classifier of a later run, which therefore skips the transformer.
C6_IdempotenceGuard ==
    /\ xpc \in {"transformed", "failed"} => ~HasManagedMods(foxml_root)
    /\ xpc = "rerun" => ~managed

\* C6 witness: a managed record was transformed and then classified again.
C6_Witness ==
    /\ xpc = "rerun"
    /\ HasManagedMods(original)
    /\ HasContentLocation(original)
    /\ foxml_root # original
    /\ ~managed

\* C7: the classifier answers true exactly for the trees that hold a MODS
\* datastream whose CONTROL_GROUP is "M", false when there is no MODS
\* datastream, and the transformer has run only where it answered true.
C7_ClassifierGate ==
    xpc # "parsed"
        => /\ was_managed = HasManagedMods(original)
           /\ FindModsDatastream(original) = 0 => ~was_managed
           /\ xpc \in {"transformed", "failed", "rerun"} => was_managed
           /\ ~was_managed => foxml_root = original

\* C7 witness: a record whose first datastream is managed and whose MODS
\* datastream is inline went through the gate untransformed.
C7_Witness ==
    /\ xpc = "skipped"
    /\ Len(original) = 2
    /\ original[1].CONTROL_GROUP = "M"
    /\ original[2].ID = "MODS"
    /\ original[2].CONTROL_GROUP = "X"

\* the file members of an archive whose base name contains the target, in
\* listing order, nested containers expanded in place, each with its depth
RECURSIVE MatchesFrom(_, _, _)
MatchesFrom(zip, i, depth) ==
    IF i > Len(zip) THEN <<>>
    ELSE LET m == zip[i]
             here == IF EndsWithZip(m.name) THEN MatchesFrom(m.members, 1, depth + 1)
                     ELSE IF IsIn(Target, Basename(m.name))
                          THEN << [depth |-> depth, xml |-> m.xml] >>
                          ELSE <<>>
         IN  here \o MatchesFrom(zip, i + 1, depth)

\* C8 (as claimed): when exactly one member at any depth has a base name
\* containing the target and it parses, the locator returns its tree,
\* whatever the tree's shape; when no member matches, it returns None
\* without raising.
C8_FindsOnlyMatchAtAnyDepth ==
    lpc # "open"
        => LET ms == MatchesFrom(zip_ref, 1, 0)
           IN  /\ Len(ms) = 0 => lpc = "returned" /\ located = NoElement
               /\ (Len(ms) = 1 /\ ms[1].xml.kind = "Element")
                     => lpc = "returned" /\ located = ms[1].xml

\* C11: map.csv is written at most once and, once the main thread is done,
\* exactly once; when it has been written every task has returned or raised,
\* and the index still is what was written: no task appended after the write.
C11_MapWrittenOnceAfterAll ==
    /\ map_writes <= 1
    /\ mainpc = "done" => map_writes = 1
    /\ map_writes = 1
          => /\ \A t \in Tasks : tpc[t] \in {"returned", "raised"}
             /\ map_csv = bag_name_and_new_foxml

\* map.csv written after one task raised and another appended two entries
C11_Witness ==
    /\ map_writes = 1
    /\ \E t \in Tasks : tpc[t] = "raised"
    /\ \E t \in Tasks : tpc[t] = "returned" /\ Len(appended[t]) >= 2
    /\ Len(map_csv) >= 2

\* C12: no output path is created or written by two workers: every directory
\* and every file was created by one task only, and lies under the output
\* directory that this task made for its own archive.
C12_PathsOwnedByOneWorker ==
    \A x \in touched : \A y \in touched :
        /\ (x[1] = y[1] /\ x[2] = y[2]) => x[3] = y[3]
        /\ x[2][1] = OutputDirectory(x[3])[1]
        /\ <<"dir", OutputDirectory(x[3]), x[3]>> \in touched

\* two archives whose names give the same output directory were both started,
\* the loser of makedirs raised and the winner wrote a bag's file
C12_Witness ==
    \E t \in Tasks : \E u \in Tasks :
        /\ t # u
        /\ OutputDirectory(t) = OutputDirectory(u)
        /\ tpc[u] = "raised"
        /\ \E b \in 1..MaxBags : <<"file", SaveDirectory(t, b), t>> \in touched

\* C13: when no line of the generator's output announces a bag, the bag is
\* skipped: the generator was called once for it, nothing was formatted, the
\* bag has no output directory, no file and no entry in the index, and the
\* task goes on with the next member when the listing holds one.
C13_NoBagLineSkipsBag ==
    (last.gen \in {"nomatch", "path"} /\ ~last.announced)
        => /\ last.gen = "nomatch"
           /\ last.calls = 1
           /\ last.fmt = "-"
           /\ SaveDirectory(last.task, last.bag) \notin dirs
           /\ SaveDirectory(last.task, last.bag) \notin DOMAIN files
           /\ ~HasEntry(last.task, last.bag)
           /\ tpc[last.task] = IF last.more THEN "running" ELSE "returned"

\* a second bag skipped for want of a bag line, with a third one to come
C13_Witness ==
    /\ last.gen = "nomatch"
    /\ last.bag >= 2
    /\ last.more
    /\ tpc[last.task] = "running"
    /\ HasEntry(last.task, 1)

\* the last position of x in a sequence, 0 when it holds none
LastOf(text, x) ==
    IF \E i \in 1..Len(text) : text[i] = x
    THEN CHOOSE i \in 1..Len(text) :
             text[i] = x /\ \A j \in (i + 1)..Len(text) : text[j] # x
    ELSE 0

\* the bag name of a member path: the base name less the trailing
\* '_foxml_atomzip.zip'
NameOf(path) == SubSeq(Basename(path), 1, Len(Basename(path)) - Len(Atomzip))

\* C14 (as claimed): for every member <name>_foxml_atomzip.zip whose name
\* holds an underscore, the command is built with COLLECTION the part of the
\* name before its last underscore and PID the part after it, joined by ":".
C14_SplitOnLastUnderscore ==
    (command # <<>> /\ LastOf(NameOf(zip_path), "_") # 0)
        => LET name == NameOf(zip_path)
               k == LastOf(name, "_")
           IN  command = <<Drush>> \o SubSeq(name, 1, k - 1) \o <<":">>
                             \o SubSeq(name, k + 1, Len(name))

\* C15 (as claimed): a pass of the loop that failed at some step, the locator
\* returning None included, is over at the bag's boundary: when the listing
\* holds a later bag, the task is still running and goes on to it.
C15_BagFailureKeepsTaskRunning ==
    (PassFailed /\ last.gen # "hang" /\ last.more)
        => tpc[last.task] = "running"

\* C17: only the first matching member of a container takes its record from
\* the container, without a call of the generator; for every later member
\* the generator is called once, and the record, when the pass gets one,
\* comes from the companion archive the generator announced.
C17_OnlyFirstBagSkipsGenerator ==
    last.task # 0
        => /\ last.bag = 1 => (last.source = "container" /\ last.calls = 0
                                 /\ last.gen = "not_run")
           /\ last.bag > 1 => /\ last.calls = 1
                              /\ last.source # "container"
                              /\ last.root # "-" => (last.source = "companion"
                                                       /\ last.gen = "path"
                                                       /\ last.announced)

\* a third member's record taken from its companion archive, after the first
\* member's from the container
C17_Witness ==
    /\ last.bag = 3
    /\ last.source = "companion"
    /\ last.root = "tree"
    /\ HasEntry(last.task, 1)
    /\ HasEntry(last.task, 3)

\* C18 (as claimed): every entry of the index pairs a bag with the path
\* <container>/<bag>/foxml.xml of that same bag.
C18_EntryPathOfSameBag ==
    \A i \in 1..Len(bag_name_and_new_foxml) :
        bag_name_and_new_foxml[i][2][2] = bag_name_and_new_foxml[i][1]

\* C19 (as claimed): a bag's file never holds the formatted text of another
\* bag's record.
C19_FileTextOfSameBag ==
    \A p \in DOMAIN files :
        files[p].form = "formatted" => files[p].PID = p

\* C16 (as claimed): the tree the locator returns is that of the first
\* matching member in depth-first listing order, nested containers being
\* searched where they are listed; no matching member precedes it.
C16_ReturnsFirstMatchDepthFirst ==
    (lpc = "returned" /\ located # NoElement)
        => LET ms == MatchesFrom(zip_ref, 1, 0)
           IN  Len(ms) > 0 /\ located = ms[1].xml

====
